---- MODULE Spec2Model ----
(***************************************************************************)
(* Cluster MSI credential lifecycle of pkg/cluster/clustermsi.go:          *)
(* ensureClusterMsiCertificate, clusterIdentityIDs and                     *)
(* fixupClusterMsiTenantID, run by two manager instances against one       *)
(* cluster document, one secret store and one identity service.            *)
(*                                                                         *)
(* Strings whose characters matter (resource ids, secret names,            *)
(* timestamps) are sequences of one-character strings.  A nil pointer is   *)
(* the value NilPtr.  Instants are seconds since 1970-01-01T00:00:00Z.     *)
(***************************************************************************)
EXTENDS Integers, Sequences, FiniteSets, TLC

Managers == {"m1", "m2"}

\* ---- bounds of the model ----
\* calls the orchestrators start, all managers together
MaxCalls == 3

\* advances of the clock
MaxTicks == 1

\* calls a run makes in which different operations run together
MaxCallsAll == 2

\* ---- nil and errors ----
NilPtr == [nil |-> TRUE]

\* a non-nil pointer to (or a non-nil slice of) v
Ptr(v) == [nil |-> FALSE, v |-> v]

NilDoc == NilPtr

MkErr(type, status, msg) == [type |-> type, status |-> status, msg |-> msg]

NilErr == MkErr("nil", 0, "")

\* clustermsi.go:29
errClusterMsiNotPresentInResponse ==
    MkErr("error", 0, "cluster msi not present in msi credentials response")

\* clustermsi.go:160
ErrCSP == MkErr("error", 0, "clusterIdentityIDs called for CSP cluster")

\* clustermsi.go:184
ErrNoIDs ==
    MkErr("error", 0, "unable to pull clientID and objectID from the MSI CredentialsObject")

\* clustermsi.go:201
ErrNoMatch == MkErr("error", 0, "no entries found matching clusterMsiResourceId")

\* clustermsi.go:76
ErrNoNotAfter ==
    MkErr("error", 0, "unable to pull NotAfter from the MSI CredentialsObject")

\* the error of OpenShiftCluster.ClusterMsiResourceId
ErrNoClusterMsi == MkErr("error", 0, "could not find cluster MSI in cluster doc")

\* the error of msiDataplane.GetUserAssignedIdentities
ErrDataplane == MkErr("error", 0, "msi dataplane request failed")

\* the errors of db.PatchWithLease that are not the mutation's
ErrLeaseConflict == MkErr("LeaseConflict", 412, "document changed since it was read")

ErrLeaseHeld == MkErr("LeaseHeld", 0, "another holder owns the document")

ErrInfra == MkErr("error", 0, "document store unavailable")

\* ---- strings as character sequences ----
UpperChars ==
    <<"A","B","C","D","E","F","G","H","I","J","K","L","M",
      "N","O","P","Q","R","S","T","U","V","W","X","Y","Z">>

LowerChars ==
    <<"a","b","c","d","e","f","g","h","i","j","k","l","m",
      "n","o","p","q","r","s","t","u","v","w","x","y","z">>

\* the lower-case letter of every upper-case letter
FoldMap ==
    [c \in { UpperChars[i] : i \in 1..26 } |->
       LowerChars[CHOOSE i \in 1..26 : UpperChars[i] = c]]

\* simple case folding of one character, as strings.EqualFold applies it
FoldChar(c) == IF c \in DOMAIN FoldMap THEN FoldMap[c] ELSE c

\* strings.EqualFold (clustermsi.go:192)
EqualFold(s, t) ==
    /\ Len(s) = Len(t)
    /\ \A i \in 1..Len(s) : FoldChar(s[i]) = FoldChar(t[i])

\* the resource ids of the model: the key stored in the document, the same
\* id in another casing, and unrelated ids
RidFoo == <<"r","g","/","F","o","o">>

RidFooLower == <<"r","g","/","f","o","o">>

RidBar == <<"r","g","/","B","a","r">>

DocID == <<"d","1">>

\* position of the last "/" of a resource id (0 when there is none)
LastSlash(rid) ==
    IF \E i \in 1..Len(rid) : rid[i] = "/"
    THEN CHOOSE i \in 1..Len(rid) :
            rid[i] = "/" /\ \A j \in (i+1)..Len(rid) : rid[j] # "/"
    ELSE 0

\* arm.ResourceID.Name: the last segment of the id
ResourceName(rid) == SubSeq(rid, LastSlash(rid) + 1, Len(rid))

\* ---- the cluster document ----
SubscriptionTenantID == "subTenant"

EmptyIdentity == [ClientID |-> "", PrincipalID |-> ""]

\* a stored document: etag is the version the conditional commit compares
MkDoc(keys, rid, workload, tenant) ==
    [etag |-> 1, ID |-> DocID, Key |-> "key1", workload |-> workload,
     msiRid |-> rid, IdentityURL |-> "https://idurl", TenantID |-> tenant,
     UAI |-> [k \in keys |-> EmptyIdentity]]

\* OpenShiftCluster.UsesWorkloadIdentity
UsesWorkloadIdentity(d) == d.workload

\* OpenShiftCluster.ClusterMsiResourceId: the configured identity's resource
\* id, or an error when the document has none
ClusterMsiResourceId(d) ==
    IF d.msiRid = NilPtr
    THEN [err |-> ErrNoClusterMsi, rid |-> <<>>]
    ELSE [err |-> NilErr, rid |-> d.msiRid.v]

\* clusterMsiSecretName (clustermsi.go:149-156): "<doc id>-<msi name>"
clusterMsiSecretName(d) ==
    LET r == ClusterMsiResourceId(d)
    IN  IF r.err # NilErr
        THEN [err |-> r.err, name |-> <<>>]
        ELSE [err |-> NilErr, name |-> d.ID \o <<"-">> \o ResourceName(r.rid)]

\* ---- the identity service's responses ----
MkIdentity(cid, oid, notAfter) ==
    [ClientID |-> cid, ObjectID |-> oid, NotAfter |-> notAfter]

MkCredObj(ids) == [ExplicitIdentities |-> ids, CredentialsObject |-> "payload"]

\* getSingleExplicitIdentity returning the last element of the sequence
getSingleExplicitIdentityLast(msiCredObj) ==
    IF \/ msiCredObj.ExplicitIdentities = NilPtr
       \/ Len(msiCredObj.ExplicitIdentities.v) = 0
       \/ msiCredObj.ExplicitIdentities.v[1] = NilPtr
    THEN [err |-> errClusterMsiNotPresentInResponse, identity |-> NilPtr]
    ELSE [err |-> NilErr,
          identity |-> msiCredObj.ExplicitIdentities.v[
                           Len(msiCredObj.ExplicitIdentities.v)]]

\* getSingleExplicitIdentity (clustermsi.go:210-218)
getSingleExplicitIdentity(msiCredObj) ==
    IF \/ msiCredObj.ExplicitIdentities = NilPtr
       \/ Len(msiCredObj.ExplicitIdentities.v) = 0
       \/ msiCredObj.ExplicitIdentities.v[1] = NilPtr
    THEN [err |-> errClusterMsiNotPresentInResponse, identity |-> NilPtr]
    ELSE [err |-> NilErr, identity |-> msiCredObj.ExplicitIdentities.v[1]]

\* the responses GetUserAssignedIdentities gives clusterIdentityIDs: an
\* error, or a credentials object whose ExplicitIdentities is nil, empty,
\* led by a nil entry, or led by an identity with or without its ids
FullIdentity == Ptr(MkIdentity(Ptr("cid"), Ptr("oid"), NilPtr))

OtherIdentity == Ptr(MkIdentity(Ptr("cid2"), Ptr("oid2"), NilPtr))

IdsResponses ==
    { [err |-> ErrDataplane, obj |-> NilPtr] } \cup
    { [err |-> NilErr, obj |-> MkCredObj(ids)] :
        ids \in { NilPtr, Ptr(<<>>), Ptr(<<NilPtr>>),
                  Ptr(<<FullIdentity>>),
                  Ptr(<<FullIdentity, OtherIdentity>>),
                  Ptr(<<Ptr(MkIdentity(NilPtr, Ptr("oid"), NilPtr))>>),
                  Ptr(<<Ptr(MkIdentity(Ptr("cid"), NilPtr, NilPtr))>>) } }

\* ---- time ----
\* clustermsi.go:25
mockMsiCertValidityDays == 90

\* days from 1970-01-01 to the civil date y-m-d (proleptic Gregorian)
DaysFromCivil(y, m, d) ==
    LET yy  == IF m <= 2 THEN y - 1 ELSE y
        era == yy \div 400
        yoe == yy - era * 400
        mp  == (m + 9) % 12
        doy == (153 * mp + 2) \div 5 + d - 1
        doe == yoe * 365 + yoe \div 4 - yoe \div 100 + doy
    IN  era * 146097 + doe - 719468

\* the civil date of the day z days after 1970-01-01
CivilFromDays(z) ==
    LET zz  == z + 719468
        era == zz \div 146097
        doe == zz - era * 146097
        yoe == (doe - doe \div 1460 + doe \div 36524 - doe \div 146096) \div 365
        doy == doe - (365 * yoe + yoe \div 4 - yoe \div 100)
        mp  == (5 * doy + 2) \div 153
        d   == doy - (153 * mp + 2) \div 5 + 1
        m   == IF mp < 10 THEN mp + 3 ELSE mp - 9
        y   == yoe + era * 400
    IN  [y |-> IF m <= 2 THEN y + 1 ELSE y, m |-> m, d |-> d]

IsLeap(y) == ((y % 4) = 0 /\ (y % 100) # 0) \/ (y % 400) = 0

DaysIn(y, m) ==
    IF m = 2 THEN (IF IsLeap(y) THEN 29 ELSE 28)
    ELSE IF m \in {4, 6, 9, 11} THEN 30 ELSE 31

\* time.Date in UTC: month and day outside their ranges are normalised
GoDate(y, mo, d, secOfDay) ==
    LET m0 == mo - 1
        yy == y + m0 \div 12
        mm == (m0 % 12) + 1
    IN  (DaysFromCivil(yy, mm, 1) + d - 1) * 86400 + secOfDay

\* Time.AddDate(years, months, days)
AddDate(t, years, months, days) ==
    LET c == CivilFromDays(t \div 86400)
    IN  GoDate(c.y + years, c.m + months, c.d + days, (t % 86400))

\* the value of a decimal digit character, -1 for any other character
DigitChars == <<"0","1","2","3","4","5","6","7","8","9">>

DigitVal(c) ==
    IF \E i \in 1..10 : DigitChars[i] = c
    THEN (CHOOSE i \in 1..10 : DigitChars[i] = c) - 1
    ELSE -1

\* the number written by the digits s[i..j], -1 when one is no digit
RECURSIVE NumAt(_, _, _)
NumAt(s, i, j) ==
    IF i > j THEN 0
    ELSE LET rest == NumAt(s, i, j - 1)
             dv   == DigitVal(s[j])
         IN  IF rest < 0 \/ dv < 0 THEN -1 ELSE rest * 10 + dv

\* time.Parse(time.RFC3339, s) for timestamps without fractional seconds:
\* "2006-01-02T15:04:05" followed by "Z" or "+07:00"/"-07:00"
ParseRFC3339(s) ==
    LET bad == [ok |-> FALSE, t |-> 0]
    IN  IF Len(s) \notin {20, 25} THEN bad
        ELSE
        LET y  == NumAt(s, 1, 4)
            mo == NumAt(s, 6, 7)
            d  == NumAt(s, 9, 10)
            h  == NumAt(s, 12, 13)
            mi == NumAt(s, 15, 16)
            se == NumAt(s, 18, 19)
            zoneOK ==
                IF Len(s) = 20 THEN s[20] = "Z"
                ELSE /\ s[20] \in {"+", "-"}
                     /\ s[23] = ":"
                     /\ NumAt(s, 21, 22) \in 0..23
                     /\ NumAt(s, 24, 25) \in 0..59
            offset ==
                IF Len(s) = 20 THEN 0
                ELSE (IF s[20] = "-" THEN -1 ELSE 1) *
                     (NumAt(s, 21, 22) * 3600 + NumAt(s, 24, 25) * 60)
        IN  IF /\ s[5] = "-" /\ s[8] = "-" /\ s[11] = "T"
               /\ s[14] = ":" /\ s[17] = ":"
               /\ y >= 0 /\ mo \in 1..12 /\ h \in 0..23
               /\ mi \in 0..59 /\ se \in 0..59
               /\ d >= 1 /\ d <= DaysIn(y, mo)
               /\ zoneOK
            THEN [ok |-> TRUE,
                  t |-> DaysFromCivil(y, mo, d) * 86400
                        + h * 3600 + mi * 60 + se - offset]
            ELSE bad

\* the NotAfter strings of the model
TS2030Z ==
    <<"2","0","3","0","-","0","1","-","0","1","T",
      "0","0",":","0","0",":","0","0","Z">>

TS2030Offset ==
    <<"2","0","2","9","-","1","2","-","3","1","T",
      "1","9",":","0","0",":","0","0","-","0","5",":","0","0">>

TSLeapDay ==
    <<"2","0","2","8","-","0","2","-","2","9","T",
      "1","2",":","3","0",":","4","5","Z">>

TSNoT ==
    <<"2","0","3","0","-","0","1","-","0","1"," ",
      "0","0",":","0","0",":","0","0","Z">>

TSBadMonth ==
    <<"2","0","3","0","-","1","3","-","0","1","T",
      "0","0",":","0","0",":","0","0","Z">>

TSFeb29 ==
    <<"2","0","3","0","-","0","2","-","2","9","T",
      "0","0",":","0","0",":","0","0","Z">>

TSEmpty == <<>>

\* the error of time.Parse
ErrParse == MkErr("ParseError", 0, "parsing time: cannot parse")

\* the instants the clock starts at
Start2027 == GoDate(2027, 12, 3, 10 * 3600)

Start2029 == GoDate(2029, 11, 30, 23 * 3600 + 59 * 60 + 59)

\* the clock advances by this much at a time
TickStep == 12 * 3600 + 1

\* ---- expiration of the certificate (clustermsi.go:65-84) ----
\* MockExpiration adding three months for ninety days
MockExpirationMonths(n) == AddDate(n, 0, 3, 0)

\* clustermsi.go:69
MockExpiration(n) == AddDate(n, 0, 0, mockMsiCertValidityDays)

\* RealExpiration dropping the error of time.Parse
RealExpirationIgnoreParse(obj) ==
    LET g == getSingleExplicitIdentity(obj)
    IN  IF g.err # NilErr
        THEN [err |-> g.err, t |-> 0]
        ELSE IF g.identity.v.NotAfter = NilPtr
        THEN [err |-> ErrNoNotAfter, t |-> 0]
        ELSE [err |-> NilErr, t |-> ParseRFC3339(g.identity.v.NotAfter.v).t]

\* RealExpiration going on with no expiration when the identity is missing
RealExpirationLenient(obj) ==
    LET g == getSingleExplicitIdentity(obj)
    IN  IF g.err # NilErr
        THEN [err |-> NilErr, t |-> 0]
        ELSE IF g.identity.v.NotAfter = NilPtr
        THEN [err |-> ErrNoNotAfter, t |-> 0]
        ELSE LET r == ParseRFC3339(g.identity.v.NotAfter.v)
             IN  IF ~r.ok
                 THEN [err |-> ErrParse, t |-> 0]
                 ELSE [err |-> NilErr, t |-> r.t]

\* clustermsi.go:71-83
RealExpiration(obj) ==
    LET g == getSingleExplicitIdentity(obj)
    IN  IF g.err # NilErr
        THEN [err |-> g.err, t |-> 0]
        ELSE IF g.identity.v.NotAfter = NilPtr
        THEN [err |-> ErrNoNotAfter, t |-> 0]
        ELSE LET r == ParseRFC3339(g.identity.v.NotAfter.v)
             IN  IF ~r.ok
                 THEN [err |-> ErrParse, t |-> 0]
                 ELSE [err |-> NilErr, t |-> r.t]

\* ExpirationDate taking the real path whatever the flag
ExpirationDateNoFlag(isMock, n, obj) == RealExpiration(obj)

\* clustermsi.go:67-84
ExpirationDate(isMock, n, obj) ==
    IF isMock
    THEN [err |-> NilErr, t |-> MockExpiration(n)]
    ELSE RealExpiration(obj)

\* ---- the secret store ----
\* store.SecretProperties
MkProps(enabled, expires, name, notBefore) ==
    [Enabled |-> enabled, Expires |-> expires, Name |-> name,
     NotBefore |-> notBefore]

NoProps == MkProps(FALSE, 0, <<>>, 0)

NoSecrets == [n \in {} |-> NoProps]

\* the store after SetCredentialsObject(p, payload)
PutSecret(st, p, payload) ==
    [n \in DOMAIN st \cup {p.Name} |->
       IF n = p.Name THEN [props |-> p, payload |-> payload] ELSE st[n]]

\* the errors of the secret store
ErrNotFound == MkErr("ResponseError", 404, "SecretNotFound")

ErrForbidden == MkErr("ResponseError", 403, "Forbidden")

ErrThrottled == MkErr("ResponseError", 429, "Throttled")

\* not an *azcore.ResponseError, though it tells of a 404
ErrWrappedNotFound == MkErr("error", 404, "get secret: SecretNotFound")

ErrDeadline == MkErr("error", 0, "context deadline exceeded")

ErrSetFailed == MkErr("ResponseError", 500, "set secret failed")

\* what GetCredentialsObject(name) can return on the store st
GetResults(st, name) ==
    (IF name \in DOMAIN st THEN {NilErr}
     ELSE {ErrNotFound, ErrWrappedNotFound})
    \cup {ErrForbidden, ErrThrottled, ErrDeadline}

\* LookupDecision going on to create on a successful lookup too
LookupDecisionNoEarlyReturn(e) ==
    IF e = NilErr THEN "create"
    ELSE IF e.type # "ResponseError" \/ e.status # 404 THEN "fail"
    ELSE "create"

\* LookupDecision taking every response error for not-found
LookupDecisionAnyResponse(e) ==
    IF e = NilErr THEN "done"
    ELSE IF e.type # "ResponseError" THEN "fail"
    ELSE "create"

\* clustermsi.go:43-47: what the result of the lookup makes of the call
LookupDecision(e) ==
    IF e = NilErr THEN "done"
    ELSE IF e.type # "ResponseError" \/ e.status # 404 THEN "fail"
    ELSE "create"

\* the responses GetUserAssignedIdentities gives ensureClusterMsiCertificate
CertIdentity(notAfter) == Ptr(MkIdentity(Ptr("cid"), Ptr("oid"), notAfter))

CertResponses ==
    { [err |-> ErrDataplane, obj |-> NilPtr] } \cup
    { [err |-> NilErr, obj |-> MkCredObj(ids)] :
        ids \in { NilPtr, Ptr(<<>>), Ptr(<<NilPtr>>),
                  Ptr(<<CertIdentity(NilPtr)>>) } \cup
                { Ptr(<<CertIdentity(Ptr(ts))>>) :
                    ts \in { TS2030Z, TS2030Offset, TSLeapDay, TSNoT,
                             TSBadMonth, TSFeb29, TSEmpty } } }

\* ---- state ----
VARIABLES
    dbDoc,      \* the cluster document in the document store
    lease,      \* the holder of the ownership token of the key, or "none"
    log,        \* history: the mutations committed to the store, in order
    doc0,       \* history: the document at the start
    pc,         \* per manager: where its current call stands
    doc,        \* per manager: m.doc
    op,         \* per manager: the operation of the current or last call
    err,        \* per manager: what the last call returned
    calls,      \* per manager: calls started
    mut,        \* per manager: the mutation closure handed to PatchWithLease
    copy,       \* per manager: the patch's in-memory copy of the document
    pres,       \* per manager: what PatchWithLease returns (doc, err)
    readAt,     \* history: per manager, length of log when the patch read
    raced,      \* history: per manager, did a commit precede this patch's
    tries,      \* history: per manager, runs of the mutation in this call
    msiCredObj, \* per manager: the identity service's response in this call
    nFetch,     \* history: per manager, identity service calls in this call
    snap,       \* history: per manager, dbDoc, log length, m.doc and the
                \* manager's client handles at call start
    prev,       \* history: per manager, the call before this one if it
                \* succeeded, else "none"
    secrets,    \* the secret store: secret name -> properties and payload
    clock,      \* the wall clock
    ticks,      \* how often the clock has advanced
    mock,       \* env.FeatureIsSet(env.FeatureUseMockMsiRp)
    budget,     \* the calls this run may make
    identity,   \* per manager: what getSingleExplicitIdentity returned
    kvSecret,   \* per manager: kvSecret of the current call
    azureCred,  \* per manager: azureCred of the current call
    clusterMsiFederatedIdentityCredentials, \* per manager: m's client handle
    userAssignedIdentities,                 \* per manager: m's client handle
    secretName, \* per manager: secretName of the current call
    lookup,     \* history: per manager, what the initial lookup returned
    held,       \* history: per manager, did the store hold the secret at the call
    now,        \* per manager: now of the current call
    props,      \* per manager: secretProperties of the current call
    nWrite      \* history: per manager, secret store writes in this call

docVars == <<dbDoc, lease, log, doc0>>

mgrVars == <<pc, doc, op, err, calls>>

patchVars == <<mut, copy, pres, readAt, raced, tries, msiCredObj>>

vars == <<dbDoc, lease, log, doc0, pc, doc, op, err, calls,
          mut, copy, pres, readAt, raced, tries, msiCredObj, nFetch, snap,
          prev, secrets, clock, ticks, mock, budget, identity, kvSecret,
          azureCred, clusterMsiFederatedIdentityCredentials,
          userAssignedIdentities, secretName, lookup, held, now,
          props, nWrite>>

clientVars == <<kvSecret, azureCred, clusterMsiFederatedIdentityCredentials,
                userAssignedIdentities>>

certEnv == <<secrets, clock, ticks, mock, budget, identity, clientVars>>

certLoc == <<secretName, lookup, held, now, props, nWrite>>

NoMut == [op |-> "none", rid |-> <<>>, cid |-> "", oid |-> "", tenant |-> ""]

NoRes == [doc |-> NilDoc, err |-> NilErr]

NoIdentity == [err |-> NilErr, identity |-> NilPtr]

\* ---- the mutation closures ----
\* IdsMutate with the loop falling through to "return nil" when no key
\* matches
IdsMutateNoError(d, own, rid, cid, oid) ==
    LET match == { k \in DOMAIN d.UAI : EqualFold(k, rid) }
    IN  IF match = {}
        THEN { [err |-> NilErr, doc |-> d] }
        ELSE { [err |-> NilErr,
                doc |-> [d EXCEPT !.UAI[k] =
                            [ClientID |-> cid, PrincipalID |-> oid]]] :
               k \in match }

\* IdsMutate storing the entry under the lookup's resource id instead of
\* the key found
IdsMutateLookupKey(d, own, rid, cid, oid) ==
    LET match == { k \in DOMAIN d.UAI : EqualFold(k, rid) }
    IN  IF match = {}
        THEN { [err |-> ErrNoMatch, doc |-> d] }
        ELSE { [err |-> NilErr,
                doc |-> [d EXCEPT !.UAI =
                            [x \in DOMAIN d.UAI \cup {rid} |->
                               IF x = rid
                               THEN [ClientID |-> cid, PrincipalID |-> oid]
                               ELSE d.UAI[x]]]] }

\* the closure of clusterIdentityIDs (clustermsi.go:187-202) applied to the
\* copy d; own is m.doc, which the closure can reach through m.  The set
\* holds every outcome the range over the map can give.
IdsMutate(d, own, rid, cid, oid) ==
    LET match == { k \in DOMAIN d.UAI : EqualFold(k, rid) }
    IN  IF match = {}
        THEN { [err |-> ErrNoMatch, doc |-> d] }
        ELSE { [err |-> NilErr,
                doc |-> [d EXCEPT !.UAI[k] =
                            [ClientID |-> cid, PrincipalID |-> oid]]] :
               k \in match }

\* FixupMutate writing the tenant id into the manager's cached m.doc and
\* handing that back as the document to commit
FixupMutateStale(d, own, tenant) ==
    { [err |-> NilErr,
       doc |-> [own EXCEPT !.etag = d.etag, !.TenantID = tenant]] }

\* FixupMutate filling in the tenant id only where the document has none
FixupMutateIfEmpty(d, own, tenant) ==
    { [err |-> NilErr,
       doc |-> IF d.TenantID = "" THEN [d EXCEPT !.TenantID = tenant] ELSE d] }

\* the closure of fixupClusterMsiTenantID (clustermsi.go:225-228)
FixupMutate(d, own, tenant) ==
    { [err |-> NilErr, doc |-> [d EXCEPT !.TenantID = tenant]] }

\* the closure mu applied to the copy d it is given
ApplyMut(mu, d, own) ==
    IF mu.op = "ids"
    THEN IdsMutate(d, own, mu.rid, mu.cid, mu.oid)
    ELSE FixupMutate(d, own, mu.tenant)

\* clusterIdentityIDsPre looking at the kind of the cluster only after the
\* request to the identity service
clusterIdentityIDsPreLateCheck(d, resp) ==
    LET r == ClusterMsiResourceId(d)
    IN  IF r.err # NilErr
        THEN [err |-> r.err, fetches |-> 0, mut |-> NoMut]
        ELSE IF resp.err # NilErr
        THEN [err |-> resp.err, fetches |-> 1, mut |-> NoMut]
        ELSE IF ~UsesWorkloadIdentity(d)
        THEN [err |-> ErrCSP, fetches |-> 1, mut |-> NoMut]
        ELSE LET g == getSingleExplicitIdentity(resp.obj)
             IN  IF g.err # NilErr
                 THEN [err |-> g.err, fetches |-> 1, mut |-> NoMut]
                 ELSE IF \/ g.identity.v.ClientID = NilPtr
                         \/ g.identity.v.ObjectID = NilPtr
                 THEN [err |-> ErrNoIDs, fetches |-> 1, mut |-> NoMut]
                 ELSE [err |-> NilErr, fetches |-> 1,
                       mut |-> [op |-> "ids", rid |-> r.rid,
                                cid |-> g.identity.v.ClientID.v,
                                oid |-> g.identity.v.ObjectID.v,
                                tenant |-> ""]]

\* clusterIdentityIDsPre requiring the ClientID only; a missing ObjectID
\* goes into the document as the empty string
clusterIdentityIDsPreClientOnly(d, resp) ==
    IF ~UsesWorkloadIdentity(d)
    THEN [err |-> ErrCSP, fetches |-> 0, mut |-> NoMut]
    ELSE LET r == ClusterMsiResourceId(d)
         IN  IF r.err # NilErr
             THEN [err |-> r.err, fetches |-> 0, mut |-> NoMut]
             ELSE IF resp.err # NilErr
             THEN [err |-> resp.err, fetches |-> 1, mut |-> NoMut]
             ELSE LET g == getSingleExplicitIdentity(resp.obj)
                  IN  IF g.err # NilErr
                      THEN [err |-> g.err, fetches |-> 1, mut |-> NoMut]
                      ELSE IF g.identity.v.ClientID = NilPtr
                      THEN [err |-> ErrNoIDs, fetches |-> 1, mut |-> NoMut]
                      ELSE [err |-> NilErr, fetches |-> 1,
                            mut |-> [op |-> "ids", rid |-> r.rid,
                                     cid |-> g.identity.v.ClientID.v,
                                     oid |-> IF g.identity.v.ObjectID = NilPtr
                                             THEN ""
                                             ELSE g.identity.v.ObjectID.v,
                                     tenant |-> ""]]

\* ---- clusterIdentityIDs up to its patch (clustermsi.go:158-186) ----
clusterIdentityIDsPre(d, resp) ==
    IF ~UsesWorkloadIdentity(d)
    THEN [err |-> ErrCSP, fetches |-> 0, mut |-> NoMut]
    ELSE LET r == ClusterMsiResourceId(d)
         IN  IF r.err # NilErr
             THEN [err |-> r.err, fetches |-> 0, mut |-> NoMut]
             ELSE IF resp.err # NilErr
             THEN [err |-> resp.err, fetches |-> 1, mut |-> NoMut]
             ELSE LET g == getSingleExplicitIdentity(resp.obj)
                  IN  IF g.err # NilErr
                      THEN [err |-> g.err, fetches |-> 1, mut |-> NoMut]
                      ELSE IF \/ g.identity.v.ClientID = NilPtr
                              \/ g.identity.v.ObjectID = NilPtr
                      THEN [err |-> ErrNoIDs, fetches |-> 1, mut |-> NoMut]
                      ELSE [err |-> NilErr, fetches |-> 1,
                            mut |-> [op |-> "ids", rid |-> r.rid,
                                     cid |-> g.identity.v.ClientID.v,
                                     oid |-> g.identity.v.ObjectID.v,
                                     tenant |-> ""]]

\* calls started so far
RECURSIVE SumCalls(_)
SumCalls(M) ==
    IF M = {} THEN 0
    ELSE LET m == CHOOSE x \in M : TRUE
         IN  calls[m] + SumCalls(M \ {m})

\* a call begins: the per-call history starts afresh
BeginCall(m, o) ==
    /\ pc[m] = "idle"
    /\ SumCalls(Managers) < budget
    /\ doc[m] # NilDoc
    /\ calls' = [calls EXCEPT ![m] = @ + 1]
    /\ op' = [op EXCEPT ![m] = o]
    /\ snap' = [snap EXCEPT ![m] =
                   [doc |-> dbDoc, len |-> Len(log), own |-> doc[m],
                    fed |-> clusterMsiFederatedIdentityCredentials[m],
                    uai |-> userAssignedIdentities[m]]]
    /\ prev' = [prev EXCEPT ![m] =
                   IF err[m] = NilErr THEN op[m] ELSE "none"]
    /\ raced' = [raced EXCEPT ![m] = "none"]
    /\ tries' = [tries EXCEPT ![m] = 0]
    /\ readAt' = [readAt EXCEPT ![m] = 0]
    /\ pres' = [pres EXCEPT ![m] = NoRes]
    /\ copy' = [copy EXCEPT ![m] = NilDoc]

clusterIdentityIDs(m) ==
    /\ BeginCall(m, "ids")
    /\ \E resp \in IdsResponses :
         LET p == clusterIdentityIDsPre(doc[m], resp)
         IN  /\ nFetch' = [nFetch EXCEPT ![m] = p.fetches]
             /\ msiCredObj' = [msiCredObj EXCEPT ![m] =
                                IF p.fetches = 1 THEN resp.obj ELSE NilPtr]
             /\ mut' = [mut EXCEPT ![m] = p.mut]
             /\ IF p.err # NilErr
                THEN /\ pc' = [pc EXCEPT ![m] = "idle"]
                     /\ err' = [err EXCEPT ![m] = p.err]
                ELSE /\ pc' = [pc EXCEPT ![m] = "acquire"]
                     /\ err' = [err EXCEPT ![m] = NilErr]
    /\ UNCHANGED <<docVars, doc, certEnv, certLoc>>

\* fixupClusterMsiTenantID up to its patch (clustermsi.go:223-225)
fixupClusterMsiTenantID(m) ==
    /\ BeginCall(m, "fixup")
    /\ nFetch' = [nFetch EXCEPT ![m] = 0]
    /\ msiCredObj' = [msiCredObj EXCEPT ![m] = NilPtr]
    /\ mut' = [mut EXCEPT ![m] =
                 [NoMut EXCEPT !.op = "fixup", !.tenant = SubscriptionTenantID]]
    /\ pc' = [pc EXCEPT ![m] = "acquire"]
    /\ err' = [err EXCEPT ![m] = NilErr]
    /\ UNCHANGED <<docVars, doc, certEnv, certLoc>>

\* any operation on a manager whose m.doc is nil dereferences it and panics
NilDeref(m) ==
    /\ pc[m] = "idle"
    /\ SumCalls(Managers) < budget
    /\ doc[m] = NilDoc
    /\ pc' = [pc EXCEPT ![m] = "panicked"]
    /\ UNCHANGED <<docVars, doc, op, err, calls, patchVars, nFetch, snap,
                   prev, certEnv, certLoc>>

\* ---- db.PatchWithLease(key, mutate) ----
\* the document PatchWithLease returns beside an error
PatchErrDoc == NilDoc

\* step 1: take the ownership token of the key; fails while another holds it
PatchAcquire(m) ==
    /\ pc[m] = "acquire"
    /\ IF lease = "none"
       THEN /\ lease' = m
            /\ pc' = [pc EXCEPT ![m] = "read"]
            /\ pres' = pres
       ELSE /\ lease' = lease
            /\ pc' = [pc EXCEPT ![m] = "release"]
            /\ pres' = [pres EXCEPT ![m] =
                          [doc |-> PatchErrDoc, err |-> ErrLeaseHeld]]
    /\ UNCHANGED <<dbDoc, log, doc0, doc, op, err, calls,
                   mut, copy, readAt, raced, tries, msiCredObj, nFetch, snap,
                   prev, certEnv, certLoc>>

\* the mutation run on the copy just read (step 3): its error aborts the
\* patch with no write
Mutated(m, d) ==
    \E r \in ApplyMut(mut[m], d, doc[m]) :
       IF r.err # NilErr
       THEN /\ pres' = [pres EXCEPT ![m] =
                          [doc |-> PatchErrDoc, err |-> r.err]]
            /\ pc' = [pc EXCEPT ![m] = "release"]
            /\ copy' = [copy EXCEPT ![m] = d]
       ELSE /\ copy' = [copy EXCEPT ![m] = r.doc]
            /\ pc' = [pc EXCEPT ![m] = "commit"]
            /\ pres' = pres

\* steps 2 and 3: read the current document under the token and run the
\* mutation on the copy, or fail on the store
PatchRead(m) ==
    /\ pc[m] = "read"
    /\ \/ /\ readAt' = [readAt EXCEPT ![m] = Len(log)]
          /\ tries' = [tries EXCEPT ![m] = @ + 1]
          /\ Mutated(m, dbDoc)
       \/ /\ pres' = [pres EXCEPT ![m] =
                        [doc |-> PatchErrDoc, err |-> ErrInfra]]
          /\ pc' = [pc EXCEPT ![m] = "release"]
          /\ UNCHANGED <<copy, readAt, tries>>
    /\ UNCHANGED <<docVars, doc, op, err, calls, mut, raced, msiCredObj,
                   nFetch, snap, prev, certEnv, certLoc>>

\* CommitAllowed of an unconditional write
CommitAlways(read, stored) == TRUE

\* the condition of the conditional commit: the version read is still the
\* stored one
CommitAllowed(read, stored) == read.etag = stored.etag

\* step 4: commit the copy if the stored version is the one read; a single
\* attempt, a conflict is returned
PatchCommit(m) ==
    /\ pc[m] = "commit"
    /\ raced' = [raced EXCEPT ![m] =
                   IF Len(log) > readAt[m] THEN "yes" ELSE "no"]
    /\ IF CommitAllowed(copy[m], dbDoc)
       THEN /\ dbDoc' = [copy[m] EXCEPT !.etag = dbDoc.etag + 1]
            /\ log' = Append(log, [m |-> m, call |-> calls[m], mut |-> mut[m]])
            /\ pres' = [pres EXCEPT ![m] =
                          [doc |-> [copy[m] EXCEPT !.etag = dbDoc.etag + 1],
                           err |-> NilErr]]
       ELSE /\ UNCHANGED <<dbDoc, log>>
            /\ pres' = [pres EXCEPT ![m] =
                          [doc |-> PatchErrDoc, err |-> ErrLeaseConflict]]
    /\ pc' = [pc EXCEPT ![m] = "release"]
    /\ UNCHANGED <<lease, doc0, doc, op, err, calls, mut, copy, readAt,
                   tries, msiCredObj, nFetch, snap, prev, certEnv, certLoc>>

\* ReleasesOn of a patch that returns early on a failure
ReleasesOnSuccessOnly(e) == e = NilErr

\* does the patch give the token back on this outcome (step 5: on every one)
ReleasesOn(e) == TRUE

\* PatchReturn dropping the error of the patch
PatchReturnSwallow(m) ==
    /\ doc' = [doc EXCEPT ![m] = pres[m].doc]
    /\ err' = [err EXCEPT ![m] = NilErr]
    /\ pc' = [pc EXCEPT ![m] = "idle"]

\* m.doc, err = PatchWithLease(...); return err (clustermsi.go:187,204 and
\* 225,230)
PatchReturn(m) ==
    /\ doc' = [doc EXCEPT ![m] = pres[m].doc]
    /\ err' = [err EXCEPT ![m] = pres[m].err]
    /\ pc' = [pc EXCEPT ![m] = "idle"]

\* step 5: release the token, and PatchWithLease returns to its caller
PatchRelease(m) ==
    /\ pc[m] = "release"
    /\ lease' = IF lease = m /\ ReleasesOn(pres[m].err) THEN "none" ELSE lease
    /\ PatchReturn(m)
    /\ UNCHANGED <<dbDoc, log, doc0, op, calls, patchVars, nFetch, snap,
                   prev, certEnv, certLoc>>

\* the token is time-bounded: it lapses under a holder that is still at work
LeaseExpire ==
    /\ lease # "none"
    /\ pc[lease] \in {"read", "commit", "release"}
    /\ lease' = "none"
    /\ UNCHANGED <<dbDoc, log, doc0, mgrVars, patchVars, nFetch, snap,
                   prev, certEnv, certLoc>>

\* ---- the document specification ----
KeySets == { {}, {RidFoo}, {RidBar}, {RidFoo, RidBar} }

ConfiguredRids == { Ptr(RidFoo), Ptr(RidFooLower) }

\* the documents a run starts from: workload identity clusters with every
\* key set (and either casing of the configured id where a key can match
\* it), one with no configured id, and one that is no workload identity
\* cluster and whose tenant id is still to be filled in
InitialDocs ==
    { MkDoc(keys, rid, TRUE, "oldTenant") :
        keys \in { {RidFoo}, {RidFoo, RidBar} }, rid \in ConfiguredRids }
    \cup { MkDoc(keys, Ptr(RidFoo), TRUE, "oldTenant") :
             keys \in KeySets \ { {RidFoo}, {RidFoo, RidBar} } }
    \cup { MkDoc({RidFoo}, NilPtr, TRUE, "oldTenant"),
           MkDoc({RidFoo}, Ptr(RidFoo), FALSE, "") }

\* the managers as constructed: m.doc is the stored document
InitManagers ==
    /\ doc0 = dbDoc
    /\ lease = "none"
    /\ log = <<>>
    /\ pc = [m \in Managers |-> "idle"]
    /\ doc = [m \in Managers |-> dbDoc]
    /\ op = [m \in Managers |-> "none"]
    /\ err = [m \in Managers |-> NilErr]
    /\ calls = [m \in Managers |-> 0]
    /\ mut = [m \in Managers |-> NoMut]
    /\ copy = [m \in Managers |-> NilDoc]
    /\ pres = [m \in Managers |-> NoRes]
    /\ readAt = [m \in Managers |-> 0]
    /\ raced = [m \in Managers |-> "none"]
    /\ tries = [m \in Managers |-> 0]
    /\ msiCredObj = [m \in Managers |-> NilPtr]
    /\ nFetch = [m \in Managers |-> 0]
    /\ snap = [m \in Managers |->
                 [doc |-> dbDoc, len |-> 0, own |-> dbDoc,
                  fed |-> NilPtr, uai |-> NilPtr]]
    /\ prev = [m \in Managers |-> "none"]
    /\ ticks = 0
    /\ secretName = [m \in Managers |-> <<>>]
    /\ lookup = [m \in Managers |-> NilErr]
    /\ held = [m \in Managers |-> FALSE]
    /\ now = [m \in Managers |-> 0]
    /\ props = [m \in Managers |-> NoProps]
    /\ nWrite = [m \in Managers |-> 0]
    /\ identity = [m \in Managers |-> NoIdentity]
    /\ kvSecret = [m \in Managers |-> NilPtr]
    /\ azureCred = [m \in Managers |-> NilPtr]
    /\ clusterMsiFederatedIdentityCredentials = [m \in Managers |-> NilPtr]
    /\ userAssignedIdentities = [m \in Managers |-> NilPtr]

InitDoc ==
    /\ dbDoc \in InitialDocs
    /\ secrets = NoSecrets
    /\ clock = Start2027
    /\ mock = FALSE
    /\ budget = MaxCalls
    /\ InitManagers

NextDoc ==
    \/ \E m \in Managers : clusterIdentityIDs(m)
    \/ \E m \in Managers : fixupClusterMsiTenantID(m)
    \/ \E m \in Managers : PatchAcquire(m)
    \/ \E m \in Managers : PatchRead(m)
    \/ \E m \in Managers : PatchCommit(m)
    \/ \E m \in Managers : PatchRelease(m)
    \/ \E m \in Managers : NilDeref(m)
    \/ LeaseExpire

SpecDoc == InitDoc /\ [][NextDoc]_vars

\* ---- ensureClusterMsiCertificate (clustermsi.go:36-94) ----
\* the call returns e; now and secretProperties are gone
Return(m, e) ==
    /\ pc' = [pc EXCEPT ![m] = "idle"]
    /\ err' = [err EXCEPT ![m] = e]
    /\ now' = [now EXCEPT ![m] = 0]
    /\ props' = [props EXCEPT ![m] = NoProps]

\* clustermsi.go:36-47: the secret name and the initial lookup
ensureClusterMsiCertificate(m) ==
    /\ BeginCall(m, "ensure")
    /\ nFetch' = [nFetch EXCEPT ![m] = 0]
    /\ nWrite' = [nWrite EXCEPT ![m] = 0]
    /\ msiCredObj' = [msiCredObj EXCEPT ![m] = NilPtr]
    /\ LET sn == clusterMsiSecretName(doc[m])
       IN  IF sn.err # NilErr
           THEN /\ Return(m, sn.err)
                /\ secretName' = [secretName EXCEPT ![m] = <<>>]
                /\ lookup' = [lookup EXCEPT ![m] = NilErr]
                /\ held' = [held EXCEPT ![m] = FALSE]
           ELSE \E e \in GetResults(secrets, sn.name) :
                  /\ secretName' = [secretName EXCEPT ![m] = sn.name]
                  /\ lookup' = [lookup EXCEPT ![m] = e]
                  /\ held' = [held EXCEPT ![m] = sn.name \in DOMAIN secrets]
                  /\ IF LookupDecision(e) = "done" THEN Return(m, NilErr)
                     ELSE IF LookupDecision(e) = "fail" THEN Return(m, e)
                     ELSE /\ pc' = [pc EXCEPT ![m] = "fetch"]
                          /\ err' = [err EXCEPT ![m] = NilErr]
                          /\ UNCHANGED <<now, props>>
    /\ UNCHANGED <<docVars, doc, mut, certEnv>>

\* clustermsi.go:49-63: the request to the identity service
EnsureFetch(m) ==
    /\ pc[m] = "fetch"
    /\ LET r == ClusterMsiResourceId(doc[m])
       IN  IF r.err # NilErr
           THEN /\ Return(m, r.err)
                /\ UNCHANGED <<nFetch, msiCredObj>>
           ELSE \E resp \in CertResponses :
                  /\ nFetch' = [nFetch EXCEPT ![m] = @ + 1]
                  /\ msiCredObj' = [msiCredObj EXCEPT ![m] = resp.obj]
                  /\ IF resp.err # NilErr
                     THEN Return(m, resp.err)
                     ELSE /\ pc' = [pc EXCEPT ![m] = "expiry"]
                          /\ UNCHANGED <<err, now, props>>
    /\ UNCHANGED <<docVars, doc, op, calls, mut, copy, pres, readAt, raced,
                   tries, snap, prev, certEnv, secretName, lookup, held,
                   nWrite>>

\* EnsureExpiry naming the secret by the identity's resource name alone
EnsureExpiryBareName(m) ==
    /\ pc[m] = "expiry"
    /\ LET e == ExpirationDate(mock, clock, msiCredObj[m])
       IN  IF e.err # NilErr
           THEN Return(m, e.err)
           ELSE /\ now' = [now EXCEPT ![m] = clock]
                /\ props' = [props EXCEPT ![m] =
                               MkProps(TRUE, e.t,
                                       ResourceName(doc[m].msiRid.v), clock)]
                /\ pc' = [pc EXCEPT ![m] = "set"]
                /\ err' = err
    /\ UNCHANGED <<docVars, doc, op, calls, patchVars, nFetch, snap, prev,
                   certEnv, secretName, lookup, held, nWrite>>

\* clustermsi.go:65-91: now, the expiration date and the secret properties
EnsureExpiry(m) ==
    /\ pc[m] = "expiry"
    /\ LET e == ExpirationDate(mock, clock, msiCredObj[m])
       IN  IF e.err # NilErr
           THEN Return(m, e.err)
           ELSE /\ now' = [now EXCEPT ![m] = clock]
                /\ props' = [props EXCEPT ![m] =
                               MkProps(TRUE, e.t, secretName[m], clock)]
                /\ pc' = [pc EXCEPT ![m] = "set"]
                /\ err' = err
    /\ UNCHANGED <<docVars, doc, op, calls, patchVars, nFetch, snap, prev,
                   certEnv, secretName, lookup, held, nWrite>>

\* EnsureSet recording the new certificate in the cluster document as well
EnsureSetTouchDoc(m) ==
    /\ pc[m] = "set"
    /\ nWrite' = [nWrite EXCEPT ![m] = @ + 1]
    /\ \/ /\ secrets' = PutSecret(secrets, props[m],
                                  msiCredObj[m].CredentialsObject)
          /\ dbDoc' = [dbDoc EXCEPT !.etag = @ + 1]
          /\ Return(m, NilErr)
       \/ /\ secrets' = secrets
          /\ dbDoc' = dbDoc
          /\ Return(m, ErrSetFailed)
    /\ UNCHANGED <<lease, log, doc0, doc, op, calls, patchVars, nFetch, snap,
                   prev, clock, ticks, mock, budget, identity, clientVars,
                   secretName, lookup, held>>

\* clustermsi.go:93: the write to the secret store, which can fail
EnsureSet(m) ==
    /\ pc[m] = "set"
    /\ nWrite' = [nWrite EXCEPT ![m] = @ + 1]
    /\ \/ /\ secrets' = PutSecret(secrets, props[m],
                                  msiCredObj[m].CredentialsObject)
          /\ Return(m, NilErr)
       \/ /\ secrets' = secrets
          /\ Return(m, ErrSetFailed)
    /\ UNCHANGED <<docVars, doc, op, calls, patchVars, nFetch, snap, prev,
                   clock, ticks, mock, budget, identity, clientVars,
                   secretName, lookup, held>>

\* ---- initializeClusterMsiClients (clustermsi.go:98-145) ----
ErrCloudName == MkErr("error", 0, "cloud name not supported by msi dataplane")

ErrDeserialize == MkErr("error", 0, "cannot build identities from secret")

ErrNoCredential == MkErr("error", 0, "no credential for the resource id")

ErrFicClient == MkErr("error", 0, "federated identity credentials client")

ErrUaiClient == MkErr("error", 0, "user assigned identities client")

\* m.subscriptionDoc.ID
SubscriptionID == "sub1"

\* a client of the given kind made in manager m's call number gen
MkClient(kind, cred, gen) ==
    Ptr([kind |-> kind, subId |-> SubscriptionID, cred |-> cred, gen |-> gen])

\* the call returns e; kvSecret and azureCred are gone
InitReturn(m, e) ==
    /\ pc' = [pc EXCEPT ![m] = "idle"]
    /\ err' = [err EXCEPT ![m] = e]
    /\ kvSecret' = [kvSecret EXCEPT ![m] = NilPtr]
    /\ azureCred' = [azureCred EXCEPT ![m] = NilPtr]

\* initializeClusterMsiClients creating the secret when the lookup says
\* not-found, as ensureClusterMsiCertificate does
initializeClusterMsiClientsFallback(m) ==
    /\ BeginCall(m, "init")
    /\ nFetch' = [nFetch EXCEPT ![m] = 0]
    /\ nWrite' = [nWrite EXCEPT ![m] = 0]
    /\ msiCredObj' = [msiCredObj EXCEPT ![m] = NilPtr]
    /\ LET sn == clusterMsiSecretName(doc[m])
       IN  IF sn.err # NilErr
           THEN /\ InitReturn(m, sn.err)
                /\ secretName' = [secretName EXCEPT ![m] = <<>>]
                /\ lookup' = [lookup EXCEPT ![m] = NilErr]
                /\ held' = [held EXCEPT ![m] = FALSE]
           ELSE \E e \in GetResults(secrets, sn.name) :
                  /\ secretName' = [secretName EXCEPT ![m] = sn.name]
                  /\ lookup' = [lookup EXCEPT ![m] = e]
                  /\ held' = [held EXCEPT ![m] = sn.name \in DOMAIN secrets]
                  /\ IF e = NilErr
                     THEN /\ kvSecret' = [kvSecret EXCEPT ![m] =
                                            Ptr(secrets[sn.name].payload)]
                          /\ pc' = [pc EXCEPT ![m] = "cloud"]
                          /\ err' = [err EXCEPT ![m] = NilErr]
                          /\ UNCHANGED azureCred
                     ELSE IF LookupDecision(e) = "create"
                     THEN /\ pc' = [pc EXCEPT ![m] = "fetch"]
                          /\ err' = [err EXCEPT ![m] = NilErr]
                          /\ UNCHANGED <<kvSecret, azureCred>>
                     ELSE InitReturn(m, e)
    /\ UNCHANGED <<docVars, doc, mut, secrets, clock, ticks, mock, budget,
                   identity, clusterMsiFederatedIdentityCredentials,
                   userAssignedIdentities, now, props>>

\* clustermsi.go:98-107: the secret name and the stored secret
initializeClusterMsiClients(m) ==
    /\ BeginCall(m, "init")
    /\ nFetch' = [nFetch EXCEPT ![m] = 0]
    /\ nWrite' = [nWrite EXCEPT ![m] = 0]
    /\ msiCredObj' = [msiCredObj EXCEPT ![m] = NilPtr]
    /\ LET sn == clusterMsiSecretName(doc[m])
       IN  IF sn.err # NilErr
           THEN /\ InitReturn(m, sn.err)
                /\ secretName' = [secretName EXCEPT ![m] = <<>>]
                /\ lookup' = [lookup EXCEPT ![m] = NilErr]
                /\ held' = [held EXCEPT ![m] = FALSE]
           ELSE \E e \in GetResults(secrets, sn.name) :
                  /\ secretName' = [secretName EXCEPT ![m] = sn.name]
                  /\ lookup' = [lookup EXCEPT ![m] = e]
                  /\ held' = [held EXCEPT ![m] = sn.name \in DOMAIN secrets]
                  /\ IF e = NilErr
                     THEN /\ kvSecret' = [kvSecret EXCEPT ![m] =
                                            Ptr(secrets[sn.name].payload)]
                          /\ pc' = [pc EXCEPT ![m] = "cloud"]
                          /\ err' = [err EXCEPT ![m] = NilErr]
                          /\ UNCHANGED azureCred
                     ELSE InitReturn(m, e)
    /\ UNCHANGED <<docVars, doc, mut, secrets, clock, ticks, mock, budget,
                   identity, clusterMsiFederatedIdentityCredentials,
                   userAssignedIdentities, now, props>>

\* clustermsi.go:109-127: the cloud name, the identities of the stored
\* payload, the resource id and its credential; each can fail
InitResolve(m) ==
    /\ pc[m] = "cloud"
    /\ LET r == ClusterMsiResourceId(doc[m])
       IN  \/ InitReturn(m, ErrCloudName)
           \/ InitReturn(m, ErrDeserialize)
           \/ /\ r.err # NilErr
              /\ InitReturn(m, r.err)
           \/ /\ r.err = NilErr
              /\ InitReturn(m, ErrNoCredential)
           \/ /\ r.err = NilErr
              /\ azureCred' = [azureCred EXCEPT ![m] =
                                 Ptr([payload |-> kvSecret[m].v,
                                      rid |-> r.rid])]
              /\ pc' = [pc EXCEPT ![m] = "clients"]
              /\ UNCHANGED <<err, kvSecret>>
    /\ UNCHANGED <<docVars, doc, op, calls, patchVars, nFetch, snap, prev,
                   secrets, clock, ticks, mock, budget, identity,
                   clusterMsiFederatedIdentityCredentials,
                   userAssignedIdentities, certLoc>>

\* ClientHandles storing the first client as soon as it is made
ClientHandlesEager(fed, uai, cred, gen, ficErr, uaiErr) ==
    IF ficErr # NilErr
    THEN [fed |-> fed, uai |-> uai, err |-> ficErr]
    ELSE IF uaiErr # NilErr
    THEN [fed |-> MkClient("fic", cred, gen), uai |-> uai, err |-> uaiErr]
    ELSE [fed |-> MkClient("fic", cred, gen),
          uai |-> MkClient("uai", cred, gen), err |-> NilErr]

\* clustermsi.go:130-144: the manager's two handles after the construction
\* of the two clients from cred, each of which can fail, and the error
\* returned
ClientHandles(fed, uai, cred, gen, ficErr, uaiErr) ==
    IF ficErr # NilErr
    THEN [fed |-> fed, uai |-> uai, err |-> ficErr]
    ELSE IF uaiErr # NilErr
    THEN [fed |-> fed, uai |-> uai, err |-> uaiErr]
    ELSE [fed |-> MkClient("fic", cred, gen),
          uai |-> MkClient("uai", cred, gen), err |-> NilErr]

\* clustermsi.go:130-144
InitConstruct(m) ==
    /\ pc[m] = "clients"
    /\ \E ficErr \in {NilErr, ErrFicClient}, uaiErr \in {NilErr, ErrUaiClient} :
         LET h == ClientHandles(clusterMsiFederatedIdentityCredentials[m],
                                userAssignedIdentities[m], azureCred[m].v,
                                calls[m], ficErr, uaiErr)
         IN  /\ clusterMsiFederatedIdentityCredentials' =
                   [clusterMsiFederatedIdentityCredentials EXCEPT ![m] = h.fed]
             /\ userAssignedIdentities' =
                   [userAssignedIdentities EXCEPT ![m] = h.uai]
             /\ InitReturn(m, h.err)
    /\ UNCHANGED <<docVars, doc, op, calls, patchVars, nFetch, snap, prev,
                   secrets, clock, ticks, mock, budget, identity, certLoc>>

\* time passes
Tick ==
    /\ ticks < MaxTicks
    /\ ticks' = ticks + 1
    /\ clock' = clock + TickStep
    /\ UNCHANGED <<docVars, mgrVars, patchVars, nFetch, snap, prev,
                   secrets, mock, budget, identity, clientVars, certLoc>>

\* ---- the certificate specification ----
SecretNameFoo == <<"d","1","-","F","o","o">>

\* a secret written in an earlier pass
OldSecrets ==
    PutSecret(NoSecrets, MkProps(TRUE, Start2027, SecretNameFoo, 0), "old")

InitCert ==
    /\ \E rid \in {Ptr(RidFoo), NilPtr} :
         dbDoc = MkDoc({RidFoo}, rid, TRUE, "oldTenant")
    /\ secrets \in {NoSecrets, OldSecrets}
    /\ clock \in {Start2027, Start2029}
    /\ mock \in BOOLEAN
    /\ budget = MaxCalls
    /\ InitManagers

NextCert ==
    \/ \E m \in Managers : ensureClusterMsiCertificate(m)
    \/ \E m \in Managers : EnsureFetch(m)
    \/ \E m \in Managers : EnsureExpiry(m)
    \/ \E m \in Managers : EnsureSet(m)
    \/ Tick

SpecCert == InitCert /\ [][NextCert]_vars

\* ---- the operations on the secret store together ----
\* with or without a configured identity, with or without a secret of an
\* earlier pass, either mode
InitSecrets ==
    /\ \E rid \in {Ptr(RidFoo), NilPtr} :
         dbDoc = MkDoc({RidFoo}, rid, TRUE, "oldTenant")
    /\ secrets \in {NoSecrets, OldSecrets}
    /\ clock = Start2027
    /\ mock \in BOOLEAN
    /\ budget = MaxCallsAll
    /\ InitManagers

NextSecrets ==
    \/ NextCert
    \/ \E m \in Managers : initializeClusterMsiClients(m)
    \/ \E m \in Managers : InitResolve(m)
    \/ \E m \in Managers : InitConstruct(m)

SpecSecrets == InitSecrets /\ [][NextSecrets]_vars

\* ---- getSingleExplicitIdentity on its own ----
\* the longest ExplicitIdentities handed to it
MaxIds == 2

\* calls of it a run makes
MaxExtractCalls == 2

\* an identity with no ClientID
PartialIdentity == Ptr(MkIdentity(NilPtr, Ptr("oid"), Ptr(TS2030Z)))

\* the sequences of up to n elements, each nil or an identity
RECURSIVE IdentitySeqs(_)
IdentitySeqs(n) ==
    IF n = 0 THEN { <<>> }
    ELSE IdentitySeqs(n - 1) \cup
         { Append(q, e) :
             q \in { x \in IdentitySeqs(n - 1) : Len(x) = n - 1 },
             e \in { NilPtr, FullIdentity, OtherIdentity, PartialIdentity } }

\* the responses: ExplicitIdentities nil, or one of the sequences
ExtractInputs ==
    { MkCredObj(NilPtr) } \cup
    { MkCredObj(Ptr(q)) : q \in IdentitySeqs(MaxIds) }

\* a caller holds a response and calls getSingleExplicitIdentity
ExtractCall(m) ==
    /\ BeginCall(m, "extract")
    /\ \E obj \in ExtractInputs :
         msiCredObj' = [msiCredObj EXCEPT ![m] = obj]
    /\ identity' = [identity EXCEPT ![m] = NoIdentity]
    /\ pc' = [pc EXCEPT ![m] = "extract"]
    /\ err' = [err EXCEPT ![m] = NilErr]
    /\ UNCHANGED <<docVars, doc, mut, nFetch, secrets, clock, ticks, mock,
                   budget, clientVars, certLoc>>

\* clustermsi.go:210-218: it returns
ExtractReturn(m) ==
    /\ pc[m] = "extract"
    /\ identity' = [identity EXCEPT ![m] =
                      getSingleExplicitIdentity(msiCredObj[m])]
    /\ err' = [err EXCEPT ![m] = getSingleExplicitIdentity(msiCredObj[m]).err]
    /\ pc' = [pc EXCEPT ![m] = "idle"]
    /\ UNCHANGED <<docVars, doc, op, calls, patchVars, nFetch, snap, prev,
                   secrets, clock, ticks, mock, budget, clientVars, certLoc>>

InitExtract ==
    /\ dbDoc = MkDoc({RidFoo}, Ptr(RidFoo), TRUE, "oldTenant")
    /\ secrets = NoSecrets
    /\ clock = Start2027
    /\ mock = FALSE
    /\ budget = MaxExtractCalls
    /\ InitManagers

NextExtract ==
    \/ \E m \in Managers : ExtractCall(m)
    \/ \E m \in Managers : ExtractReturn(m)

SpecExtract == InitExtract /\ [][NextExtract]_vars

\* ---- ensureClusterMsiCertificate beside the operations on the document ----
\* a workload identity cluster whose configured id differs in case from its
\* key, no secret stored yet, either mode
InitAll ==
    /\ dbDoc = MkDoc({RidFoo}, Ptr(RidFooLower), TRUE, "oldTenant")
    /\ secrets = NoSecrets
    /\ clock = Start2027
    /\ mock \in BOOLEAN
    /\ budget = MaxCallsAll
    /\ InitManagers

NextAll ==
    \/ NextDoc
    \/ \E m \in Managers : ensureClusterMsiCertificate(m)
    \/ \E m \in Managers : EnsureFetch(m)
    \/ \E m \in Managers : EnsureExpiry(m)
    \/ \E m \in Managers : EnsureSet(m)

SpecAll == InitAll /\ [][NextAll]_vars

\* ---- what the history says ----
\* the documents the store can hold after the mutations log[i..] are
\* committed in order onto a document of D
RECURSIVE Replay(_, _)
Replay(D, i) ==
    IF i > Len(log)
    THEN D
    ELSE Replay({ [r.doc EXCEPT !.etag = d.etag + 1] :
                    r \in { x \in UNION { ApplyMut(log[i].mut, d, d) : d \in D } :
                              x.err = NilErr },
                    d \in D }, i + 1)

\* the mutations manager m committed in its current (or last) call
OwnCommits(m) ==
    { i \in 1..Len(log) : log[i].m = m /\ log[i].call = calls[m] }

Returned(m, o) == pc[m] = "idle" /\ op[m] = o /\ calls[m] > 0

\* the identity record a successful clusterIdentityIDs fetched
Fetched(m) == msiCredObj[m].ExplicitIdentities.v[1].v

\* ---- C1 ----
\* C1: a patch whose commit comes after another writer's commit since its
\* read fails with the conflict error, which is no mutation error; the
\* mutation ran once (no retry inside the patch); the losing call has
\* committed nothing, and the stored document is exactly the committed
\* mutations applied in commit order.
C1_ConflictLoserNeverObservable ==
    /\ \A m \in Managers :
         /\ tries[m] <= 1
         /\ raced[m] = "yes" =>
              /\ pres[m].err = ErrLeaseConflict
              /\ pres[m].err \notin {ErrNoMatch, NilErr}
              /\ pres[m].doc = PatchErrDoc
              /\ OwnCommits(m) = {}
              /\ pc[m] = "idle" => err[m] = ErrLeaseConflict
    /\ \E d \in Replay({doc0}, 1) : d = [dbDoc EXCEPT !.etag = d.etag]
    /\ dbDoc.etag = 1 + Len(log)

\* a clusterIdentityIDs that lost the race to a fixupClusterMsiTenantID has
\* returned the conflict, and the store shows the winner's tenant id and
\* not the loser's ids
C1_Witness ==
    \E m \in Managers :
       /\ Returned(m, "ids")
       /\ raced[m] = "yes"
       /\ err[m] = ErrLeaseConflict
       /\ dbDoc.TenantID = SubscriptionTenantID
       /\ RidFoo \in DOMAIN dbDoc.UAI
       /\ dbDoc.UAI[RidFoo] = EmptyIdentity

\* ---- C2 ----
\* C2: when a clusterIdentityIDs of one manager and a
\* fixupClusterMsiTenantID of another have both returned success, the
\* stored document holds both effects.
C2_NoLostUpdates ==
    \A m1, m2 \in Managers :
       ( /\ m1 # m2
         /\ Returned(m1, "ids") /\ err[m1] = NilErr
         /\ Returned(m2, "fixup") /\ err[m2] = NilErr )
       => /\ dbDoc.TenantID = SubscriptionTenantID
          /\ \E k \in DOMAIN dbDoc.UAI :
               /\ EqualFold(k, mut[m1].rid)
               /\ dbDoc.UAI[k] = [ClientID |-> Fetched(m1).ClientID.v,
                                  PrincipalID |-> Fetched(m1).ObjectID.v]

\* both have succeeded, the clusterIdentityIDs having committed first
C2_Witness ==
    \E m1, m2 \in Managers :
       /\ m1 # m2
       /\ Returned(m1, "ids") /\ err[m1] = NilErr
       /\ Returned(m2, "fixup") /\ err[m2] = NilErr
       /\ Len(log) = 2
       /\ log[1].m = m1 /\ log[2].m = m2
       /\ dbDoc.UAI[RidFoo].ClientID = "cid"

\* ---- C3 ----
\* C3: a manager whose patch call has returned (or has not yet taken the
\* token) does not hold the token of the key.
C3_TokenReleasedOnReturn ==
    \A m \in Managers :
       pc[m] \in {"idle", "acquire", "panicked"} => lease # m

\* one patch has returned a conflict and another a mutation error after a
\* successful commit, and the token is free
C3_Witness ==
    \E m1, m2 \in Managers :
       /\ pc[m1] = "idle" /\ err[m1] = ErrLeaseConflict
       /\ pc[m2] = "idle" /\ err[m2] = ErrNoMatch /\ tries[m2] = 1
       /\ \E i \in 1..Len(log) : log[i].m = m2
       /\ lease = "none"

\* ---- C4 ----
\* C4: a clusterIdentityIDs whose patch read a document with no key equal
\* under case folding to the resource id ends the patch with the
\* "no entries found" error and commits nothing; when it has returned and
\* no other writer committed meanwhile, the stored document is the one
\* of before the call.
C4_NoMatchLeavesDocument ==
    \A m \in Managers :
       /\ ( /\ op[m] = "ids" /\ tries[m] = 1
            /\ \A k \in DOMAIN copy[m].UAI : ~EqualFold(k, mut[m].rid) )
          => /\ pres[m].err = ErrNoMatch
             /\ pc[m] \in {"release", "idle", "panicked"}
             /\ OwnCommits(m) = {}
       /\ ( Returned(m, "ids") /\ err[m] = ErrNoMatch )
          => /\ OwnCommits(m) = {}
             /\ \A k \in DOMAIN copy[m].UAI : ~EqualFold(k, mut[m].rid)
             /\ Len(log) = snap[m].len => dbDoc = snap[m].doc

\* the call has returned the error and the document is as before
C4_Witness ==
    \E m \in Managers :
       /\ Returned(m, "ids")
       /\ err[m] = ErrNoMatch
       /\ tries[m] = 1
       /\ DOMAIN dbDoc.UAI = {RidBar}
       /\ Len(log) = snap[m].len
       /\ dbDoc = snap[m].doc

\* ---- C5 ----
\* C5: after a successful clusterIdentityIDs the stored document has the
\* key strings it had before the call, and the entry whose key equals the
\* resource id under case folding holds the fetched ClientID and ObjectID.
C5_KeysPreservedIdsWritten ==
    \A m \in Managers :
       ( Returned(m, "ids") /\ err[m] = NilErr )
       => /\ DOMAIN dbDoc.UAI = DOMAIN snap[m].doc.UAI
          /\ DOMAIN doc[m].UAI = DOMAIN snap[m].doc.UAI
          /\ \E k \in DOMAIN dbDoc.UAI :
               /\ EqualFold(k, mut[m].rid)
               /\ dbDoc.UAI[k].ClientID = Fetched(m).ClientID.v
               /\ dbDoc.UAI[k].PrincipalID = Fetched(m).ObjectID.v
               /\ doc[m].UAI[k] = dbDoc.UAI[k]

\* the lookup id "rg/foo" matched the key "rg/Foo", which is still the key
C5_Witness ==
    \E m \in Managers :
       /\ Returned(m, "ids") /\ err[m] = NilErr
       /\ mut[m].rid = RidFooLower
       /\ DOMAIN dbDoc.UAI = {RidFoo, RidBar}
       /\ dbDoc.UAI[RidFoo] = [ClientID |-> "cid", PrincipalID |-> "oid"]
       /\ dbDoc.UAI[RidBar] = EmptyIdentity

\* ---- what the calls of ensureClusterMsiCertificate are measured by ----
\* the NotAfter of the first identity of the response manager m got, NilPtr
\* when there is no response, no first identity or no NotAfter
NotAfterSeen(m) ==
    IF msiCredObj[m] = NilPtr THEN NilPtr
    ELSE IF msiCredObj[m].ExplicitIdentities = NilPtr THEN NilPtr
    ELSE IF msiCredObj[m].ExplicitIdentities.v = <<>> THEN NilPtr
    ELSE IF msiCredObj[m].ExplicitIdentities.v[1] = NilPtr THEN NilPtr
    ELSE msiCredObj[m].ExplicitIdentities.v[1].v.NotAfter

\* the well-formed timestamps of the model and the instants they denote:
\* 2030-01-01T00:00:00Z, 2029-12-31T19:00:00-05:00, 2028-02-29T12:30:45Z
WellFormed == { Ptr(TS2030Z), Ptr(TS2030Offset), Ptr(TSLeapDay) }

InstantOf(p) == IF p = Ptr(TSLeapDay) THEN 1835440245 ELSE 1893456000

\* the errors with which the call ends between its fetch and its write
BeforeWrite ==
    { ErrDataplane, errClusterMsiNotPresentInResponse, ErrNoNotAfter, ErrParse }

LookupFailures == { ErrForbidden, ErrThrottled, ErrWrappedNotFound, ErrDeadline }

\* ---- C6 ----
\* C6 as stated: a call made while the store holds the secret returns
\* success with no fetch and no write.
C6_AsStated ==
    \A m \in Managers :
       ( Returned(m, "ensure") /\ held[m] )
       => err[m] = NilErr /\ nFetch[m] = 0 /\ nWrite[m] = 0

\* C6 (amended): a call made while the store holds the secret makes no
\* call to the identity service and no write, and returns what its lookup
\* returned: success when the lookup succeeds, the lookup's error when the
\* lookup fails; a call that follows a successful call of the same manager
\* finds the secret held and writes nothing.
C6_HeldSecretNoFetchNoWrite ==
    \A m \in Managers :
       /\ ( op[m] = "ensure" /\ held[m] )
          => /\ pc[m] = "idle"
             /\ nFetch[m] = 0 /\ nWrite[m] = 0
             /\ lookup[m] # ErrNotFound
             /\ err[m] = lookup[m]
       /\ ( op[m] = "ensure" /\ prev[m] = "ensure" )
          => held[m] /\ nWrite[m] = 0

\* the second call of a manager whose first call wrote the secret has
\* returned success without a write
C6_Witness ==
    \E m \in Managers :
       /\ Returned(m, "ensure") /\ prev[m] = "ensure" /\ held[m]
       /\ err[m] = NilErr /\ nFetch[m] = 0 /\ nWrite[m] = 0
       /\ secrets[SecretNameFoo].payload = "payload"

\* ---- C7 ----
\* C7 as stated: after a not-found lookup the call makes exactly one fetch
\* and exactly one write.
C7_AsStated ==
    \A m \in Managers :
       ( Returned(m, "ensure") /\ lookup[m] = ErrNotFound )
       => nFetch[m] = 1 /\ nWrite[m] = 1

\* C7 (amended): after a not-found lookup the call makes exactly one fetch
\* and at most one write: no write when it ends with the error of the
\* fetch, of the missing identity or of the missing or malformed NotAfter
\* (the last three in real mode only), exactly one write otherwise.
C7_OneFetchAtMostOneWrite ==
    \A m \in Managers :
       /\ ( op[m] = "ensure" ) => ( nFetch[m] <= 1 /\ nWrite[m] <= 1 )
       /\ ( Returned(m, "ensure") /\ lookup[m] = ErrNotFound )
          => /\ nFetch[m] = 1
             /\ err[m] \in BeforeWrite \cup {NilErr, ErrSetFailed}
             /\ nWrite[m] = IF err[m] \in BeforeWrite THEN 0 ELSE 1
             /\ mock => err[m] \in {ErrDataplane, NilErr, ErrSetFailed}

\* a creation has returned success after one fetch and one write, and the
\* store holds what it wrote
C7_Witness ==
    \E m \in Managers :
       /\ Returned(m, "ensure") /\ lookup[m] = ErrNotFound
       /\ err[m] = NilErr /\ nFetch[m] = 1 /\ nWrite[m] = 1
       /\ SecretNameFoo \in DOMAIN secrets
       /\ secrets[SecretNameFoo].payload = "payload"

\* ---- C8 ----
\* C8: in mock mode the properties handed to the write are enabled, carry
\* the secret name "<doc id>-<msi name>", start at the one reading of the
\* clock and expire 90 days after it, whatever the identity service sent;
\* no call ends with an error of the identity record; every secret written
\* has such properties.
C8_MockExpiresNinetyDays ==
    mock =>
      /\ \A m \in Managers :
           /\ pc[m] = "set" =>
                /\ props[m].Enabled
                /\ props[m].Name = SecretNameFoo
                /\ props[m].NotBefore = now[m]
                /\ now[m] \in { clock - k * TickStep : k \in 0..ticks }
                /\ props[m].Expires = props[m].NotBefore + 90 * 86400
           /\ op[m] = "ensure" =>
                err[m] \notin { errClusterMsiNotPresentInResponse,
                                ErrNoNotAfter, ErrParse }
      /\ \A n \in DOMAIN secrets :
           \/ secrets[n].payload = "old"
           \/ /\ n = SecretNameFoo
              /\ secrets[n].props.Enabled
              /\ secrets[n].props.Name = n
              /\ secrets[n].props.Expires =
                   secrets[n].props.NotBefore + 90 * 86400

\* in mock mode a write is due whose identity record says 2030-01-01 and
\* whose properties expire 90 days after the advanced clock instead
C8_Witness ==
    \E m \in Managers :
       /\ mock /\ pc[m] = "set"
       /\ NotAfterSeen(m) = Ptr(TS2030Z)
       /\ ticks = 1
       /\ props[m].NotBefore = Start2029 + TickStep
       /\ props[m].Expires # 1893456000
       /\ props[m].Expires = 1890777599 + TickStep + 7776000

\* ---- C9 ----
\* C9: in real mode a write is due only for a well-formed NotAfter and then
\* with the instant it denotes as Expires; a call that got a response with
\* an absent or malformed NotAfter has returned an error without a write;
\* every secret written expires at an instant a NotAfter denoted.
C9_RealExpiresAtNotAfter ==
    ~mock =>
      /\ \A m \in Managers :
           /\ pc[m] = "set" =>
                /\ NotAfterSeen(m) \in WellFormed
                /\ props[m].Expires = InstantOf(NotAfterSeen(m))
           /\ ( Returned(m, "ensure") /\ nFetch[m] = 1
                /\ NotAfterSeen(m) \notin WellFormed )
              => /\ err[m] # NilErr
                 /\ err[m] \in BeforeWrite
                 /\ nWrite[m] = 0
           /\ ( Returned(m, "ensure") /\ nFetch[m] = 1
                /\ NotAfterSeen(m) \in WellFormed )
              => /\ nWrite[m] = 1
                 /\ err[m] \in {NilErr, ErrSetFailed}
      /\ \A n \in DOMAIN secrets :
           \/ secrets[n].payload = "old"
           \/ secrets[n].props.Expires \in {1835440245, 1893456000}

\* in real mode the secret written for "2029-12-31T19:00:00-05:00" expires
\* at 2030-01-01T00:00:00Z
C9_Witness ==
    \E m \in Managers :
       /\ ~mock
       /\ Returned(m, "ensure") /\ err[m] = NilErr /\ nWrite[m] = 1
       /\ NotAfterSeen(m) = Ptr(TS2030Offset)
       /\ secrets[SecretNameFoo].props.Expires = 1893456000
       /\ secrets[SecretNameFoo].payload = "payload"

\* ---- C10 ----
\* C10: a call whose lookup failed with anything but the 404 response
\* error has returned that very error with no fetch and no write; a call
\* is on the creation path only after the 404 response error.
C10_OtherLookupErrorsReturned ==
    \A m \in Managers :
       op[m] = "ensure" =>
         /\ lookup[m] \in LookupFailures
            => /\ pc[m] = "idle"
               /\ err[m] = lookup[m]
               /\ nFetch[m] = 0 /\ nWrite[m] = 0
         /\ ( pc[m] \in {"fetch", "expiry", "set"}
              \/ nFetch[m] > 0 \/ nWrite[m] > 0 )
            => lookup[m] = ErrNotFound

\* with no secret in the store, a lookup error that only wraps a 404 has
\* been returned as it is
C10_Witness ==
    \E m \in Managers :
       /\ Returned(m, "ensure")
       /\ ~held[m]
       /\ lookup[m] = ErrWrappedNotFound
       /\ err[m] = ErrWrappedNotFound
       /\ secrets = NoSecrets

\* ---- C11 ----
\* the response manager m holds has an absent or empty ExplicitIdentities
EmptyIds(m) ==
    /\ msiCredObj[m] # NilPtr
    /\ \/ msiCredObj[m].ExplicitIdentities = NilPtr
       \/ msiCredObj[m].ExplicitIdentities.v = <<>>

\* C11 as stated: every call that received a response with an absent or
\* empty ExplicitIdentities (ensureClusterMsiCertificate in either mode,
\* clusterIdentityIDs) has failed, with no write to the secret store and no
\* commit to the cluster document.
C11_AsStated ==
    \A m \in Managers :
       ( Returned(m, "ensure") \/ Returned(m, "ids") ) /\ EmptyIds(m)
       => /\ err[m] # NilErr
          /\ op[m] = "ensure" => nWrite[m] = 0
          /\ OwnCommits(m) = {}

\* C11 (amended): clusterIdentityIDs, and ensureClusterMsiCertificate in
\* real mode, fail with the identity-not-present error on a response whose
\* ExplicitIdentities is absent or empty, and no patch, commit or secret
\* write follows; in mock mode ensureClusterMsiCertificate does not look
\* at ExplicitIdentities and goes on to its one write.
C11_EmptyIdentitiesFail ==
    \A m \in Managers :
       EmptyIds(m) =>
         /\ op[m] = "ids"
            => /\ pc[m] = "idle"
               /\ err[m] = errClusterMsiNotPresentInResponse
               /\ tries[m] = 0 /\ mut[m] = NoMut /\ lease # m
               /\ OwnCommits(m) = {}
         /\ ( op[m] = "ensure" /\ ~mock )
            => /\ pc[m] \in {"expiry", "idle"}
               /\ nWrite[m] = 0
               /\ pc[m] = "idle"
                  => err[m] = errClusterMsiNotPresentInResponse
         /\ ( op[m] = "ensure" /\ mock )
            => /\ pc[m] \in {"expiry", "set", "idle"}
               /\ nWrite[m] = IF pc[m] = "idle" THEN 1 ELSE 0
               /\ pc[m] = "idle" => err[m] \in {NilErr, ErrSetFailed}

\* in real mode one manager's ensureClusterMsiCertificate and the other's
\* clusterIdentityIDs have both failed on an empty ExplicitIdentities, with
\* the store and the document as they were
C11_Witness ==
    \E m, n \in Managers :
       /\ ~mock
       /\ Returned(m, "ensure") /\ EmptyIds(m)
       /\ msiCredObj[m].ExplicitIdentities = Ptr(<<>>)
       /\ err[m] = errClusterMsiNotPresentInResponse
       /\ Returned(n, "ids") /\ EmptyIds(n)
       /\ msiCredObj[n].ExplicitIdentities = NilPtr
       /\ err[n] = errClusterMsiNotPresentInResponse
       /\ secrets = NoSecrets /\ dbDoc = doc0

\* ---- C12 ----
\* C12: a clusterIdentityIDs call on a manager whose document is not of the
\* workload-identity kind has returned the type-mismatch error, which is
\* none of the other errors of the operation, with no call to the identity
\* service, no patch (no token taken, no mutation run, no commit of its
\* own), and the stored document as it was when no one else committed.
C12_NotWorkloadIdentityFailsFirst ==
    \A m \in Managers :
       ( op[m] = "ids" /\ doc[m] # NilDoc /\ ~UsesWorkloadIdentity(doc[m]) )
       => /\ pc[m] = "idle"
          /\ err[m] = ErrCSP
          /\ err[m] \notin { NilErr, ErrNoClusterMsi, ErrDataplane, ErrNoIDs,
                              errClusterMsiNotPresentInResponse, ErrNoMatch }
          /\ nFetch[m] = 0 /\ msiCredObj[m] = NilPtr
          /\ lease # m /\ tries[m] = 0 /\ mut[m] = NoMut
          /\ OwnCommits(m) = {}
          /\ Len(log) = snap[m].len => dbDoc = snap[m].doc

\* after its own successful fixupClusterMsiTenantID, a manager's
\* clusterIdentityIDs on the cluster that is no workload identity cluster
\* has failed with the type-mismatch error and the document is as that
\* fixup left it
C12_Witness ==
    \E m \in Managers :
       /\ Returned(m, "ids") /\ prev[m] = "fixup"
       /\ ~UsesWorkloadIdentity(doc[m])
       /\ err[m] = ErrCSP /\ nFetch[m] = 0
       /\ Len(log) = 1 /\ dbDoc = doc[m]
       /\ dbDoc.TenantID = SubscriptionTenantID

\* ---- C13 ----
\* the content of a document, its version left aside
Content(d) == [d EXCEPT !.etag = 0]

\* manager m's last call committed log[i] right after its previous call
\* committed log[i-1], both as fixupClusterMsiTenantID, and no one has
\* committed since that call began
RepeatedFixup(m, i) ==
    /\ i = Len(log) /\ i >= 2 /\ snap[m].len = i - 1
    /\ log[i].m = m /\ log[i].call = calls[m] /\ log[i].mut.op = "fixup"
    /\ log[i-1].m = m /\ log[i-1].call = calls[m] - 1
    /\ log[i-1].mut.op = "fixup"

\* C13: once a fixupClusterMsiTenantID has committed, the stored document
\* carries the subscription's tenant id (no other operation writes the
\* field), and so does the document a successful call hands its manager;
\* a successful call repeated with no writer in between raises the version
\* and leaves the content as the first call left it.
C13_FixupTenantIdempotent ==
    /\ ( \E i \in 1..Len(log) : log[i].mut.op = "fixup" )
       => dbDoc.TenantID = SubscriptionTenantID
    /\ \A m \in Managers :
         ( Returned(m, "fixup") /\ err[m] = NilErr )
         => /\ doc[m].TenantID = SubscriptionTenantID
            /\ OwnCommits(m) # {}
            /\ \A i \in OwnCommits(m) :
                 RepeatedFixup(m, i)
                 => /\ Content(dbDoc) = Content(snap[m].doc)
                    /\ dbDoc.etag = snap[m].doc.etag + 1

\* a manager's second successful fixupClusterMsiTenantID in a row, on a
\* document that began with another tenant id, has left the first call's
\* content under a new version
C13_Witness ==
    \E m \in Managers :
       /\ Returned(m, "fixup") /\ err[m] = NilErr /\ prev[m] = "fixup"
       /\ RepeatedFixup(m, 2)
       /\ doc0.TenantID = "oldTenant"
       /\ dbDoc.TenantID = SubscriptionTenantID
       /\ dbDoc.etag = 3
       /\ Content(dbDoc) = Content(snap[m].doc)

\* ---- C14 ----
\* C14: getSingleExplicitIdentity has returned the identity-not-present
\* error and no identity when ExplicitIdentities is absent, has no element
\* or begins with an absent element, and otherwise no error and the first
\* element, whatever follows it; the response it was given is the one the
\* caller still holds, and the step that returns changes no response.
C14_ExtractFirstOrNotPresent ==
    /\ [](\A m \in Managers :
           ( Returned(m, "extract") ) =>
             LET ids == msiCredObj[m].ExplicitIdentities
                 absent == IF ids = NilPtr THEN TRUE
                           ELSE IF ids.v = <<>> THEN TRUE
                           ELSE Head(ids.v) = NilPtr
             IN  /\ msiCredObj[m] \in ExtractInputs
                 /\ absent => identity[m] =
                      [err |-> errClusterMsiNotPresentInResponse,
                       identity |-> NilPtr]
                 /\ ~absent => identity[m] =
                      [err |-> NilErr, identity |-> Head(ids.v)]
                 /\ err[m] = identity[m].err)
    /\ [][\A m \in Managers :
            pc[m] = "extract" => msiCredObj'[m] = msiCredObj[m]]_vars

\* the first of two different identities has been returned
C14_Witness ==
    \E m \in Managers :
       /\ Returned(m, "extract")
       /\ msiCredObj[m].ExplicitIdentities =
            Ptr(<<OtherIdentity, FullIdentity>>)
       /\ identity[m] = [err |-> NilErr, identity |-> OtherIdentity]

\* ---- C15 ----
\* manager m takes a step of ensureClusterMsiCertificate: it enters the
\* call, or moves on within it
EnsureStep(m) ==
    \/ op'[m] = "ensure" /\ calls'[m] = calls[m] + 1
    \/ op[m] = "ensure" /\ pc[m] \in {"fetch", "expiry", "set"}
       /\ pc'[m] # pc[m]

\* C15: a manager in or after ensureClusterMsiCertificate is at no step of
\* a patch, holds no token, has run no mutation and committed nothing in
\* that call, and has written the secret store at most once; every step of
\* the call leaves the stored document, the token, the commit history and
\* the manager's m.doc as they are, and changes the secret store only in
\* its one write.
C15_EnsureTouchesOnlySecretStore ==
    /\ [](\A m \in Managers :
           op[m] = "ensure" =>
             /\ pc[m] \in {"idle", "fetch", "expiry", "set"}
             /\ lease # m
             /\ tries[m] = 0 /\ pres[m] = NoRes /\ copy[m] = NilDoc
             /\ OwnCommits(m) = {}
             /\ nWrite[m] <= 1)
    /\ [][\A m \in Managers :
            EnsureStep(m) =>
              /\ dbDoc' = dbDoc /\ lease' = lease /\ log' = log
              /\ doc'[m] = doc[m]
              /\ secrets' # secrets
                 => /\ pc[m] = "set"
                    /\ nWrite[m] = 0 /\ nWrite'[m] = 1]_vars

\* a creation has returned success after its one write, with m.doc the
\* document the manager began with, while the stored document is what
\* another manager's fixupClusterMsiTenantID committed
C15_Witness ==
    \E m, n \in Managers :
       /\ Returned(m, "ensure") /\ err[m] = NilErr /\ nWrite[m] = 1
       /\ secretName[m] \in DOMAIN secrets
       /\ doc[m] = doc0
       /\ Returned(n, "fixup") /\ err[n] = NilErr
       /\ Len(log) = 1 /\ log[1].m = n
       /\ dbDoc # doc0

\* ---- C16 ----
\* C16: initializeClusterMsiClients never calls the identity service and
\* never writes the secret store; a call whose lookup of the stored secret
\* failed, with not-found as with any other error, has returned that very
\* error, goes no further, and leaves the manager's client handles as they
\* were.
C16_InitLookupFailureIsFatal ==
    \A m \in Managers :
       op[m] = "init" =>
         /\ pc[m] \in {"idle", "cloud", "clients"}
         /\ nFetch[m] = 0 /\ nWrite[m] = 0 /\ msiCredObj[m] = NilPtr
         /\ lookup[m] # NilErr
            => /\ pc[m] = "idle"
               /\ err[m] = lookup[m]
               /\ kvSecret[m] = NilPtr /\ azureCred[m] = NilPtr
               /\ clusterMsiFederatedIdentityCredentials[m] = snap[m].fed
               /\ userAssignedIdentities[m] = snap[m].uai
         /\ lookup[m] \in {ErrNotFound, ErrWrappedNotFound} => ~held[m]

\* with no secret in the store the call has returned the not-found error
\* of its lookup, and the store is still empty
C16_Witness ==
    \E m \in Managers :
       /\ Returned(m, "init")
       /\ lookup[m] = ErrNotFound /\ err[m] = ErrNotFound
       /\ ~held[m] /\ nFetch[m] = 0 /\ nWrite[m] = 0
       /\ secrets = NoSecrets

\* ---- C17 ----
\* the response manager m holds begins with an identity that lacks its
\* ClientID or its ObjectID
LacksIds(m) ==
    /\ msiCredObj[m] # NilPtr
    /\ msiCredObj[m].ExplicitIdentities # NilPtr
    /\ msiCredObj[m].ExplicitIdentities.v # <<>>
    /\ Head(msiCredObj[m].ExplicitIdentities.v) # NilPtr
    /\ \/ Head(msiCredObj[m].ExplicitIdentities.v).v.ClientID = NilPtr
       \/ Head(msiCredObj[m].ExplicitIdentities.v).v.ObjectID = NilPtr

\* C17: a clusterIdentityIDs call that fetched an identity without
\* ClientID or without ObjectID has returned the error of the missing ids
\* after its one fetch and before any patch: it took no token, ran no
\* mutation, committed nothing, kept its m.doc, and the stored document
\* has the version and content of the start of the call when no one else
\* committed.
C17_MissingIdsFailBeforePatch ==
    \A m \in Managers :
       ( op[m] = "ids" /\ LacksIds(m) )
       => /\ pc[m] = "idle"
          /\ err[m] = ErrNoIDs
          /\ nFetch[m] = 1
          /\ lease # m /\ tries[m] = 0 /\ mut[m] = NoMut
          /\ pres[m] = NoRes /\ copy[m] = NilDoc
          /\ OwnCommits(m) = {}
          /\ doc[m] # NilDoc
          /\ Len(log) = snap[m].len => dbDoc = snap[m].doc

\* an identity with an ObjectID and no ClientID has made the call fail,
\* and the stored document is the one of the start
C17_Witness ==
    \E m \in Managers :
       /\ Returned(m, "ids") /\ LacksIds(m)
       /\ Fetched(m).ClientID = NilPtr /\ Fetched(m).ObjectID = Ptr("oid")
       /\ err[m] = ErrNoIDs
       /\ log = <<>> /\ dbDoc = doc0 /\ dbDoc.etag = 1

\* and so has one with a ClientID and no ObjectID
C17_WitnessNoObjectID ==
    \E m \in Managers :
       /\ Returned(m, "ids") /\ LacksIds(m)
       /\ Fetched(m).ClientID = Ptr("cid") /\ Fetched(m).ObjectID = NilPtr
       /\ err[m] = ErrNoIDs

C18_FailedPatchClobbersDoc ==
    \A m \in Managers :
       /\ ( pc[m] = "idle" /\ op[m] \in {"ids", "fixup"}
            /\ pres[m].err # NilErr )
          => /\ err[m] = pres[m].err
             /\ doc[m] = pres[m].doc
             /\ doc[m] = PatchErrDoc
       /\ pc[m] = "panicked" => doc[m] = NilDoc /\ pres[m].err # NilErr

\* ---- C19 ----
\* manager m's two client handles
Handles(m) ==
    [fed |-> clusterMsiFederatedIdentityCredentials[m],
     uai |-> userAssignedIdentities[m]]

\* C19: a manager's two handles are both nil or both clients, one of each
\* kind, made in the same call from the same credential and subscription
\* id; while a call runs, and after an initializeClusterMsiClients that
\* failed at whatever step, both are what they were when the call began;
\* after one that succeeded both are clients made in that call from the
\* credential resolved from the stored secret and the configured id.
C19_HandlesBothOrNeither ==
    \A m \in Managers :
       LET h == Handles(m)
       IN  /\ h.fed = NilPtr <=> h.uai = NilPtr
           /\ h.fed # NilPtr
              => /\ h.fed.v.kind = "fic" /\ h.uai.v.kind = "uai"
                 /\ h.fed.v.cred = h.uai.v.cred
                 /\ h.fed.v.gen = h.uai.v.gen
                 /\ h.fed.v.subId = SubscriptionID
                 /\ h.uai.v.subId = SubscriptionID
           /\ ( pc[m] # "idle" \/ op[m] # "init" \/ err[m] # NilErr )
              => /\ h.fed = snap[m].fed
                 /\ h.uai = snap[m].uai
           /\ ( Returned(m, "init") /\ err[m] = NilErr )
              => /\ h.fed # NilPtr
                 /\ h.fed.v.gen = calls[m]
                 /\ h.fed.v.cred =
                      [payload |-> secrets[secretName[m]].payload,
                       rid |-> doc[m].msiRid.v]
           /\ ( Returned(m, "init") /\ err[m] # NilErr )
              => err[m] \in { ErrNoClusterMsi, ErrNotFound, ErrWrappedNotFound,
                              ErrForbidden, ErrThrottled, ErrDeadline,
                              ErrCloudName, ErrDeserialize, ErrNoCredential,
                              ErrFicClient, ErrUaiClient }

\* after a successful call, a second call of the manager has failed on the
\* construction of the second client, and both handles are still the
\* clients of the first call
C19_Witness ==
    \E m \in Managers :
       /\ Returned(m, "init") /\ calls[m] = 2 /\ prev[m] = "init"
       /\ err[m] = ErrUaiClient
       /\ Handles(m).fed # NilPtr /\ Handles(m).uai # NilPtr
       /\ Handles(m).fed.v.gen = 1 /\ Handles(m).uai.v.gen = 1

\* ---- C20 ----
\* the errors that say the secret is not there
NotFounds == { ErrNotFound, ErrWrappedNotFound }

\* C20: the secret name of either operation is the document id, a dash
\* and the resource name of the configured identity of the manager's
\* m.doc; a successful ensureClusterMsiCertificate leaves a secret under
\* that name; the initializeClusterMsiClients that follows it on the same
\* manager looks under the same name, the store holds the secret, and its
\* lookup returns no not-found error.
C20_SameSecretNameFound ==
    \A m \in Managers :
       /\ ( op[m] \in {"ensure", "init"} /\ secretName[m] # <<>> )
          => /\ doc[m].msiRid # NilPtr
             /\ secretName[m] =
                  doc[m].ID \o <<"-">> \o ResourceName(doc[m].msiRid.v)
       /\ ( Returned(m, "ensure") /\ err[m] = NilErr )
          => /\ secretName[m] # <<>>
             /\ secretName[m] \in DOMAIN secrets
       /\ ( op[m] = "init" /\ prev[m] = "ensure" )
          => /\ secretName[m] # <<>>
             /\ secretName[m] \in DOMAIN secrets
             /\ held[m]
             /\ lookup[m] \notin NotFounds
             /\ err[m] \notin NotFounds

\* on a store that began empty, the initializeClusterMsiClients after a
\* successful ensureClusterMsiCertificate has found the secret that call
\* wrote and has succeeded
C20_Witness ==
    \E m \in Managers :
       /\ Returned(m, "init") /\ prev[m] = "ensure"
       /\ lookup[m] = NilErr /\ err[m] = NilErr
       /\ secretName[m] = SecretNameFoo
       /\ secrets[SecretNameFoo].payload = "payload"
       /\ Handles(m).fed # NilPtr
       /\ Handles(m).fed.v.cred.payload = "payload"

====
